---- MODULE Spec2Model ----
(***************************************************************************)
(* Model of src/app.py: a Streamlit page that uploads a medical image,     *)
(* asks a generative model for an analysis and replays the conversation    *)
(* for follow-up questions.                                                *)
(*                                                                         *)
(* Streamlit executes the script top to bottom once per widget event       *)
(* (page load, uploader change, button click, chat submission).  Each      *)
(* action below is one whole execution of the script for one such event.   *)
(* st.session_state and the uploader's widget value persist between        *)
(* executions; the button value and the chat input value are set only in   *)
(* the execution their event triggers.                                     *)
(*                                                                         *)
(* A text is a sequence of tokens, so that equality with the sentinel and  *)
(* str.startswith are computed and not assumed.  A part is a record: a     *)
(* text part carries a text, an inline part carries a mime type and bytes. *)
(***************************************************************************)
EXTENDS Integers, Sequences, FiniteSets, TLC

VARIABLES
    local_api_key,   \* api_key defined by api_key.py (Absent: no importable value)
    secret_api_key,  \* st.secrets["api_key"] (Absent: no such key / no secrets file)
    api_key,         \* module variable api_key after lines 6-20
    pc,              \* "start" before the first execution, then "ready" or "halted"
    widgets,         \* controls created by the last execution of the script
    session_state,   \* st.session_state, a function from the keys present
    uploaded_file,   \* value of st.file_uploader (NoFile models None)
    submit_button,   \* value of st.button in the last execution
    prompt,          \* value of st.chat_input in the last execution (NoPrompt: None)
    response,        \* what model.generate_content did in the last execution
    sent,            \* argument of the generate_content call of the last execution
    rendered,        \* st.chat_message bubbles drawn by the last execution, in order
    result,          \* text written under "Analysis Result" by the last execution
    dropped,         \* history discarded by the reset of line 69 in the last execution
    notice           \* st.error / st.warning shown by the last execution

vars == <<local_api_key, secret_api_key, api_key, pc, widgets, session_state,
          uploaded_file, submit_button, prompt, response, sent, rendered,
          result, dropped, notice>>

(***************************************************************************)
(* Bounds                                                                  *)
(***************************************************************************)
\* successful exchanges (analysis or follow-up) explored per conversation
MaxExchanges == 2

(***************************************************************************)
(* Texts                                                                   *)
(***************************************************************************)
Sentinel == <<"Analyze this medical image.">>
Instruction == <<"Analyze this medical image", " based on the system instructions.">>
AnalysisInstruction == <<"\n">> \o Instruction
DescriptionPrefix == <<"1.  **Detailed Description**">>

StartsWith(text, prefix) ==
    /\ Len(text) >= Len(prefix)
    /\ SubSeq(text, 1, Len(prefix)) = prefix

NoPrompt == <<>>

\* questions a user can type into the chat input
Prompts == { <<"Is this serious?">>, Sentinel }

\* texts the remote model can return
ResponseTexts ==
    { <<"It looks benign.">>,
      Sentinel,
      DescriptionPrefix \o <<": chest x-ray">> }

(***************************************************************************)
(* Files offered to the uploader                                           *)
(***************************************************************************)
NoFile == [name |-> "", data |-> <<>>, type |-> ""]

Files ==
    { [name |-> "a.png", data |-> <<"bytesA">>, type |-> "image/png"],
      [name |-> "b.jpg", data |-> <<"bytesB">>, type |-> "image/jpeg"],
      [name |-> "a.png", data |-> <<"bytesC">>, type |-> "image/jpeg"] }

(***************************************************************************)
(* Credential loading, lines 6-24                                          *)
(***************************************************************************)
Absent == "<absent>"
LocalKeys == { Absent, "", "local-key" }
SecretKeys == { Absent, "", "secret-key" }

\* Python truthiness of api_key: None and "" are falsy
Truthy(k) == k # Absent /\ k # ""

\* variant: the secret store is consulted first
LoadApiKey_SecretsFirst(local, secret) ==
    IF secret # Absent THEN secret ELSE local

\* lines 6-10 leave api_key = None when the import fails; lines 16-20 consult
\* st.secrets only when that value is falsy and the key exists there
LoadApiKey(local, secret) ==
    IF ~Truthy(local) /\ secret # Absent THEN secret ELSE local

(***************************************************************************)
(* Parts and turns                                                         *)
(***************************************************************************)
TextPart(t) == [kind |-> "text", mime_type |-> "", data |-> t]
InlinePart(m, d) == [kind |-> "inline", mime_type |-> m, data |-> d]

\* Python's part == "some string": a dict is never equal to a string
PartEquals(p, t) == p.kind = "text" /\ p.data = t

Turn(r, ps) == [role |-> r, parts |-> ps]

NoResponse == [kind |-> "none", text |-> <<>>]
NoCall == [kind |-> "none", contents |-> <<>>]

Responses ==
    [kind : {"ok"}, text : ResponseTexts]
      \cup { [kind |-> "call_raises", text |-> <<>>],
             [kind |-> "text_raises", text |-> <<>>] }

(***************************************************************************)
(* Upload handling, lines 60-74                                            *)
(***************************************************************************)
\* variant: a new file replaces the image but line 69 is missing
StoreUpload_KeepsHistory(ss, f) ==
    IF f # NoFile
         /\ ("uploaded_file_content" \notin DOMAIN ss
               \/ ss["uploaded_file_name"] # f.name)
    THEN ("uploaded_file_content" :> f.data)
           @@ ("uploaded_file_name" :> f.name)
           @@ ("uploaded_file_type" :> f.type)
           @@ ss
    ELSE ss

\* variant: emptying the uploader forgets the stored image
StoreUpload_ClearsOnRemove(ss, f) ==
    IF f # NoFile
         /\ ("uploaded_file_content" \notin DOMAIN ss
               \/ ss["uploaded_file_name"] # f.name)
    THEN ("uploaded_file_content" :> f.data)
           @@ ("uploaded_file_name" :> f.name)
           @@ ("uploaded_file_type" :> f.type)
           @@ ("history" :> <<>>)
           @@ ss
    ELSE IF f = NoFile
    THEN [k \in DOMAIN ss \cap {"history"} |-> ss[k]]
    ELSE ss

StoreUpload(ss, f) ==
    IF f # NoFile
         /\ ("uploaded_file_content" \notin DOMAIN ss
               \/ ss["uploaded_file_name"] # f.name)
    THEN ("uploaded_file_content" :> f.data)
           @@ ("uploaded_file_name" :> f.name)
           @@ ("uploaded_file_type" :> f.type)
           @@ ("history" :> <<>>)
           @@ ss
    ELSE ss

InitHistory(ss) ==
    IF "history" \notin DOMAIN ss THEN ("history" :> <<>>) @@ ss ELSE ss

(***************************************************************************)
(* Analysis request, lines 76-105                                          *)
(***************************************************************************)
prompt_parts(ss) ==
    << InlinePart(ss["uploaded_file_type"], ss["uploaded_file_content"]),
       TextPart(AnalysisInstruction) >>

\* variant: only the model turn is stored
AppendAnalysis_ModelOnly(history, text) ==
    history \o << Turn("model", <<TextPart(text)>>) >>

\* the two appends of lines 99-100
AppendAnalysis(history, text) ==
    history \o << Turn("user", <<TextPart(Sentinel)>>),
                  Turn("model", <<TextPart(text)>>) >>

\* variant: the test of line 76 forgets the uploader
SubmitBranch_IgnoresUploader(submit, f) ==
    IF submit THEN "analyze" ELSE "skip"

\* the branch taken at lines 76 / 104
SubmitBranch(submit, f) ==
    IF submit /\ f # NoFile THEN "analyze"
    ELSE IF submit /\ f = NoFile THEN "warn"
    ELSE "skip"

\* history after lines 76-105
AnalysisHistory(ss, submit, f, resp) ==
    IF SubmitBranch(submit, f) = "analyze"
         /\ "uploaded_file_content" \in DOMAIN ss
         /\ resp.kind = "ok"
    THEN AppendAnalysis(ss["history"], resp.text)
    ELSE ss["history"]

(***************************************************************************)
(* Transcript, lines 108-124                                               *)
(***************************************************************************)
Bubble(r, t) == [role |-> r, text |-> t]

\* the two `continue` tests of lines 115-118
SkippedInChatView(message) ==
    \/ message.role = "user" /\ PartEquals(message.parts[1], Sentinel)
    \/ message.role = "model" /\ StartsWith(message.parts[1].data, DescriptionPrefix)

Shown(message) == ~SkippedInChatView(message)

RenderHistory(history) ==
    LET shown == SelectSeq(history, Shown)
    IN  [i \in 1..Len(shown) |-> Bubble(shown[i].role, shown[i].parts[1].data)]

(***************************************************************************)
(* Replay reconstruction, lines 134-161                                    *)
(***************************************************************************)
ImageTurn(ss) ==
    Turn("user", << InlinePart(ss["uploaded_file_type"], ss["uploaded_file_content"]),
                    TextPart(Instruction) >>)

\* the `continue` test of line 153
SkippedInReplay(msg) == PartEquals(msg.parts[1], Sentinel)

Replayed(msg) == ~SkippedInReplay(msg)

\* variant: every sentinel turn is replaced by the image turn where it stands
chat_history_ImagePerSentinel(ss, question) ==
    [i \in 1..Len(ss["history"]) |->
        IF SkippedInReplay(ss["history"][i]) THEN ImageTurn(ss) ELSE ss["history"][i]]
      \o << Turn("user", <<TextPart(question)>>) >>

chat_history(ss, question) ==
    (IF "uploaded_file_content" \in DOMAIN ss THEN <<ImageTurn(ss)>> ELSE <<>>)
      \o SelectSeq(ss["history"], Replayed)
      \o << Turn("user", <<TextPart(question)>>) >>

\* variant: the question is stored before the call is made
FollowUpHistory_QuestionFirst(history, question, resp) ==
    IF resp.kind = "ok"
    THEN history \o << Turn("user", <<TextPart(question)>>),
                       Turn("model", <<TextPart(resp.text)>>) >>
    ELSE history \o << Turn("user", <<TextPart(question)>> ) >>

\* the two appends of lines 179-180, reached only when the call and both
\* readings of response.text succeeded
FollowUpHistory(history, question, resp) ==
    IF resp.kind = "ok"
    THEN history \o << Turn("user", <<TextPart(question)>>),
                       Turn("model", <<TextPart(resp.text)>>) >>
    ELSE history

(***************************************************************************)
(* One execution of the script, lines 58-183, for the widget values        *)
(* f (uploader), submit (button), question (chat input) and the behaviour  *)
(* resp of the remote call made in it, if any.                             *)
(***************************************************************************)
Execute(f, submit, question, resp) ==
    LET before   == IF "history" \in DOMAIN session_state
                       THEN session_state["history"] ELSE <<>>
        ss1      == InitHistory(StoreUpload(session_state, f))
        branch   == SubmitBranch(submit, f)
        stored   == "uploaded_file_content" \in DOMAIN ss1
        analysed == branch = "analyze" /\ stored
        h2       == AnalysisHistory(ss1, submit, f, resp)
        ss2      == [ss1 EXCEPT !["history"] = h2]
        \* line 108 guards the chat input; line 127 reads it
        asked    == h2 # <<>> /\ question # NoPrompt
        h3       == IF asked THEN FollowUpHistory(h2, question, resp) ELSE h2
    IN  /\ uploaded_file' = f
        /\ submit_button' = submit
        /\ prompt' = IF h2 # <<>> THEN question ELSE NoPrompt
        /\ response' = IF analysed \/ asked THEN resp ELSE NoResponse
        /\ session_state' = [ss2 EXCEPT !["history"] = h3]
        /\ sent' = IF analysed
                      THEN [kind |-> "analyze", contents |-> prompt_parts(ss1)]
                   ELSE IF asked
                      THEN [kind |-> "followup", contents |-> chat_history(ss2, question)]
                   ELSE NoCall
        /\ dropped' = IF ss1["history"] # before THEN before ELSE <<>>
        /\ result' = IF analysed /\ resp.kind = "ok" THEN <<resp.text>> ELSE <<>>
        /\ rendered' =
              IF h2 = <<>> THEN <<>>
              ELSE RenderHistory(h2)
                     \o (IF asked THEN <<Bubble("user", question)>> ELSE <<>>)
                     \o (IF asked /\ resp.kind = "ok"
                           THEN <<Bubble("assistant", resp.text)>> ELSE <<>>)
        /\ notice' = IF branch = "analyze" /\ (~stored \/ resp.kind # "ok")
                         THEN "error"
                      ELSE IF branch = "warn" THEN "warning"
                      ELSE IF asked /\ resp.kind # "ok" THEN "followup_error"
                      ELSE "none"
        /\ widgets' = {"file_uploader", "button"}
                        \cup (IF h2 # <<>> THEN {"chat_input"} ELSE {})

Config == <<local_api_key, secret_api_key>>

Init ==
    /\ local_api_key \in LocalKeys
    /\ secret_api_key \in SecretKeys
    /\ api_key = Absent
    /\ pc = "start"
    /\ widgets = {}
    /\ session_state = <<>>
    /\ uploaded_file = NoFile
    /\ submit_button = FALSE
    /\ prompt = NoPrompt
    /\ response = NoResponse
    /\ sent = NoCall
    /\ rendered = <<>>
    /\ result = <<>>
    /\ dropped = <<>>
    /\ notice = "none"

\* first execution of the script when the page is opened
LoadPage ==
    /\ pc = "start"
    /\ api_key' = LoadApiKey(local_api_key, secret_api_key)
    /\ IF Truthy(api_key')
         THEN /\ pc' = "ready"
              /\ Execute(NoFile, FALSE, NoPrompt, NoResponse)
         ELSE \* lines 22-24: st.error, st.stop
              /\ pc' = "halted"
              /\ notice' = "fatal"
              /\ UNCHANGED <<widgets, session_state, uploaded_file, submit_button,
                             prompt, response, sent, rendered, result, dropped>>
    /\ UNCHANGED Config

\* the user chooses a file in the uploader
UploadFile ==
    /\ "file_uploader" \in widgets
    /\ \E f \in Files :
         /\ f # uploaded_file
         /\ Execute(f, FALSE, NoPrompt, NoResponse)
    /\ UNCHANGED <<Config, api_key, pc>>

\* the user removes the file from the uploader
RemoveFile ==
    /\ "file_uploader" \in widgets
    /\ uploaded_file # NoFile
    /\ Execute(NoFile, FALSE, NoPrompt, NoResponse)
    /\ UNCHANGED <<Config, api_key, pc>>

\* exploration bound: room left for one more stored exchange
Room == Len(session_state["history"]) < 2 * MaxExchanges

\* the user presses "Generate the analysis"
ClickSubmit ==
    /\ "button" \in widgets
    /\ \E resp \in (IF uploaded_file # NoFile THEN Responses ELSE {NoResponse}) :
         /\ resp.kind = "ok" => Room
         /\ Execute(uploaded_file, TRUE, NoPrompt, resp)
    /\ UNCHANGED <<Config, api_key, pc>>

\* the user submits a question in the chat input
AskFollowUp ==
    /\ "chat_input" \in widgets
    /\ \E question \in Prompts, resp \in Responses :
         /\ resp.kind = "ok" => Room
         /\ Execute(uploaded_file, FALSE, question, resp)
    /\ UNCHANGED <<Config, api_key, pc>>

Next ==
    \/ LoadPage
    \/ UploadFile
    \/ RemoveFile
    \/ ClickSubmit
    \/ AskFollowUp

Spec == Init /\ [][Next]_vars

(***************************************************************************)
(* Properties                                                              *)
(***************************************************************************)
Stored == {"uploaded_file_content", "uploaded_file_name", "uploaded_file_type"}
                \subseteq DOMAIN session_state

StoredHistory == IF "history" \in DOMAIN session_state
                   THEN session_state["history"] ELSE <<>>

HasInline(turn) == \E j \in DOMAIN turn.parts : turn.parts[j].kind = "inline"

IsUserSentinel(turn) == turn.role = "user" /\ turn.parts = <<TextPart(Sentinel)>>

NotUserSentinel(turn) == ~IsUserSentinel(turn)

TextIsNotSentinel(turn) == turn.parts[1].data # Sentinel

Failed(resp) == resp.kind \in {"call_raises", "text_raises"}

\* C1: the turn list of every follow-up call has exactly one image-bearing
\* turn, which is its first element and carries the image bytes and mime type
\* stored in the session, and its last element is a user turn whose only part
\* is the question just submitted.
C1_ReplayHasOneImageFirst ==
    sent.kind = "followup" =>
        LET c == sent.contents
        IN  /\ Len(c) >= 2
            /\ Stored
            /\ { i \in DOMAIN c : HasInline(c[i]) } = {1}
            /\ c[1].role = "user"
            /\ c[1].parts[1] = InlinePart(session_state["uploaded_file_type"],
                                          session_state["uploaded_file_content"])
            /\ Cardinality({ j \in DOMAIN c[1].parts : c[1].parts[j].kind = "inline" }) = 1
            /\ c[Len(c)] = Turn("user", <<TextPart(prompt)>>)

\* a follow-up whose text is the sentinel, asked after two analyses of the
\* same image
C1_Witness ==
    /\ sent.kind = "followup"
    /\ prompt = Sentinel
    /\ Len(StoredHistory) = 4
    /\ IsUserSentinel(StoredHistory[1])
    /\ IsUserSentinel(StoredHistory[3])
    /\ dropped = <<>>

\* C2: an execution whose inference call fails (the call raises or reading
\* its text raises) leaves st.session_state, hence the history and the
\* stored image, exactly as it was, and the controls to resubmit exist.
C2_FailedCallKeepsSession ==
    [][ Failed(response') =>
           /\ session_state' = session_state
           /\ notice' \in {"error", "followup_error"}
           /\ widgets' = widgets ]_vars

C2_Witness ==
    /\ response.kind = "text_raises"
    /\ notice = "followup_error"
    /\ sent.kind = "followup"
    /\ Len(StoredHistory) = 2

\* C3: an execution in which the uploader holds a file whose name differs
\* from the stored name (or nothing is stored) ends with the stored bytes,
\* name and type of that file and with a history that holds nothing of the
\* earlier conversation; an analysis request carries the stored image only.
C3_NewNameResetsHistory ==
    /\ [][ ( /\ uploaded_file' # NoFile
             /\ \/ "uploaded_file_content" \notin DOMAIN session_state
                \/ session_state["uploaded_file_name"] # uploaded_file'.name )
           => /\ session_state'["history"] = <<>>
              /\ session_state'["uploaded_file_content"] = uploaded_file'.data
              /\ session_state'["uploaded_file_name"] = uploaded_file'.name
              /\ session_state'["uploaded_file_type"] = uploaded_file'.type
              /\ dropped' = StoredHistory
              /\ sent' = NoCall ]_vars
    /\ [][ sent'.kind = "analyze" =>
              /\ sent'.contents =
                    << InlinePart(session_state'["uploaded_file_type"],
                                  session_state'["uploaded_file_content"]),
                       TextPart(AnalysisInstruction) >>
              /\ session_state'["uploaded_file_name"] = uploaded_file'.name
              /\ Len(session_state'["history"]) \in {Len(StoredHistory), Len(StoredHistory) + 2}
          ]_vars

\* image b.jpg has just replaced an image whose conversation was discarded
C3_Witness ==
    /\ dropped # <<>>
    /\ Stored
    /\ session_state["uploaded_file_name"] = "b.jpg"
    /\ session_state["uploaded_file_content"] = <<"bytesB">>
    /\ StoredHistory = <<>>

\* C4: no chat bubble whose text equals the sentinel is ever rendered.
C4_SentinelNeverRendered ==
    \A i \in DOMAIN rendered : rendered[i].text # Sentinel

C6_FirstFollowUpReplaysThree ==
    [][ sent'.kind = "followup" =>
          /\ (Len(StoredHistory) = 2 /\ IsUserSentinel(StoredHistory[1])) =>
                /\ Len(sent'.contents) = 3
                /\ sent'.contents[2] = StoredHistory[2]
                /\ response'.kind = "ok" => Len(session_state'["history"]) = 4
          /\ response'.kind = "ok" =>
                session_state'["history"] =
                  StoredHistory \o << Turn("user", <<TextPart(prompt')>>),
                                      Turn("model", <<TextPart(response'.text)>>) >>
          /\ Len(sent'.contents) =
                Len(SelectSeq(StoredHistory, TextIsNotSentinel)) + 2 ]_vars

\* C7: pressing submit while the uploader is empty dispatches no call and
\* leaves st.session_state unchanged; a warning is the only effect.
C7_SubmitWithoutFileOnlyWarns ==
    [][ (submit_button' /\ uploaded_file' = NoFile) =>
          /\ sent' = NoCall
          /\ response' = NoResponse
          /\ session_state' = session_state
          /\ result' = <<>>
          /\ notice' = "warning" ]_vars

\* the warning is shown while an earlier image and its conversation are stored
C7_Witness ==
    /\ submit_button
    /\ uploaded_file = NoFile
    /\ notice = "warning"
    /\ Stored
    /\ StoredHistory # <<>>

\* C8: the credential is the local value when that is non-empty, otherwise
\* the secret store's; when neither is non-empty the first execution shows
\* the fatal error and stops before any control exists, and nothing happens
\* afterwards: no upload, analysis, follow-up or inference call.
C8_CredentialOrHalt ==
    /\ [](pc # "start" =>
            /\ Truthy(local_api_key) => api_key = local_api_key
            /\ (~Truthy(local_api_key) /\ Truthy(secret_api_key)) => api_key = secret_api_key
            /\ (Truthy(local_api_key) \/ Truthy(secret_api_key)) <=> pc = "ready"
            /\ pc = "halted" =>
                  /\ notice = "fatal"
                  /\ widgets = {}
                  /\ sent = NoCall
                  /\ session_state = <<>>
                  /\ uploaded_file = NoFile)
    /\ [][pc = "halted" => vars' = vars]_vars

\* halted although the local file exists, because its value is empty and
\* the secret store has no entry
C8_Witness ==
    /\ pc = "halted"
    /\ local_api_key = ""
    /\ secret_api_key = Absent
    /\ notice = "fatal"

\* C9: the turns replayed between the image turn and the new question are
\* exactly the stored turns other than user turns whose text is the sentinel,
\* in stored order; every stored model turn is replayed.
C9_ReplayStripsOnlyUserSentinel ==
    [][ sent'.kind = "followup" =>
          SubSeq(sent'.contents, 2, Len(sent'.contents) - 1)
            = SelectSeq(StoredHistory, NotUserSentinel) ]_vars

\* C10: whenever the follow-up input is offered or the history is non-empty,
\* the session holds the image bytes, name and mime type; the input is
\* offered exactly when the history is non-empty; every follow-up call
\* starts with the image turn.
C10_FollowUpImpliesImage ==
    /\ ("chat_input" \in widgets) <=> (StoredHistory # <<>>)
    /\ StoredHistory # <<>> => Stored
    /\ prompt # NoPrompt => Stored /\ sent.kind = "followup"
    /\ sent.kind = "followup" => HasInline(sent.contents[1])

\* a follow-up asked after the file was removed from the uploader
C10_Witness ==
    /\ sent.kind = "followup"
    /\ uploaded_file = NoFile
    /\ response.kind = "ok"
    /\ Stored

====
